---------------------------- MODULE Spec2Model ----------------------------
(***************************************************************************)
(* Model of the intents solver: SolverProcessor (src/src/solver.js) wired  *)
(* to the indexer (src/src/config.js).  The order ledger, the payment API  *)
(* and the clock are the environment; every await of the code is one step. *)
(***************************************************************************)
EXTENDS Integers, Sequences, FiniteSets, Bags, TLC

\* ------------------------------------------------------------------ bounds
\* number of process(orderId, status) invocations in one behaviour
MaxTasks == 2
\* attempts expRetry makes before it rejects
MaxRetries == 2

\* --------------------------------------------------------- program constants
\* (createdAt + auctionDuration) * 1000n, solver.js:48
MsPerSec == 1000
\* new Big(price).div(Big(10).pow(18)), price_e18 scale, solver.js:88
PriceDecimals == 18

\* ------------------------------------------------------------- enumerations
USER_INITIATED == "USER_INITIATED"
AUCTION_IN_PROGRESS == "AUCTION_IN_PROGRESS"
MATCHED == "MATCHED"
WAIT_FOR_SOLVER_TX == "WAIT_FOR_SOLVER_TX"
SETTLED == "SETTLED"

OrderStatus == <<USER_INITIATED, AUCTION_IN_PROGRESS, MATCHED, WAIT_FOR_SOLVER_TX, SETTLED>>

Statuses == {OrderStatus[k] : k \in 1..Len(OrderStatus)}

Rank(s) == CHOOSE k \in 1..Len(OrderStatus) : OrderStatus[k] = s

Orders == {"o1", "o2"}

\* addresses: the wallet of this process, a competing solver, and "no value"
Self == "self"
Other == "other"
Undefined == "undefined"

NoTx == "none"
NoJob ==
  [order |-> "", amount |-> [whole |-> 0, frac |-> 0, dp |-> 0], assetId |-> "", toAddress |-> "",
   status |-> "absent", txid |-> NoTx, terminatedAt |-> FALSE]

\* order data that never changes on the ledger (createdAt in seconds, amounts
\* in native units, price_e18 as decimal digits, lowest first)
Zeros(n) == [k \in 1..n |-> 0]

OrderData ==
  [o \in Orders |->
     IF o = "o1"
     THEN [createdAt |-> 0, auctionDuration |-> 2, maxPrice_e18 |-> Zeros(PriceDecimals) \o <<3>>,
           baseNetwork |-> "TRX", baseToken |-> "0xusdt",
           quoteNetwork |-> "ETH", quoteToken |-> "0xusdt", userAddress |-> "user1",
           baseAmount |-> 1000000, price_e18 |-> Zeros(PriceDecimals) \o <<2>>, quoteAmount |-> 0]
     ELSE [createdAt |-> 1, auctionDuration |-> 1, maxPrice_e18 |-> Zeros(PriceDecimals) \o <<5>>,
           baseNetwork |-> "ETH", baseToken |-> "0x0",
           quoteNetwork |-> "TRX", quoteToken |-> "0xusdt", userAddress |-> "user2",
           baseAmount |-> 7, price_e18 |-> Zeros(PriceDecimals - 1) \o <<5>>, quoteAmount |-> 1500]]

\* the payment API's assets: decimals as the API sends them, a digit string
NativeAssetId == [n \in {"ETH", "TRX"} |-> IF n = "ETH" THEN "eth" ELSE "trx"]

AssetDecimals == [a \in {"eth", "trx", "usdt-eth", "usdt-trx"} |-> IF a = "eth" THEN <<1, 8>> ELSE <<6>>]

TokenAssetId == [n \in {"ETH", "TRX"} |-> IF n = "ETH" THEN "usdt-eth" ELSE "usdt-trx"]

\* the instants Date.now() can return (milliseconds): the last millisecond of
\* an auction (the deadline itself) and the first one after it
Instants ==
  {(OrderData[o].createdAt + OrderData[o].auctionDuration) * MsPerSec + d :
     o \in Orders, d \in {0, 1}}


\* ------------------------------------------------------------------- state
VARIABLES
  solverAddress,  \* this.solverAddress as sendSolverTransaction reads it
  ledger,         \* order ledger: order -> [status, solver]
  jobs,           \* payment API: externalId -> withdrawal job
  tasks,          \* the running process(orderId, status) invocations and pollers: a bag of frames
  nextTask,       \* invocations started so far
  outcomes,       \* how finished invocations ended: <<order, outcome>>
  now,            \* last value Date.now() returned
  delayed,        \* orders with a pending 15 s re-queue timer
  alerts,         \* '[Critical Alert]' lines logged: <<order, kind>> -> count
  reactCalls,     \* solverReact calls issued to the ledger
  settleCalls,    \* setSolverTxOnQuoteNetwork calls issued to the ledger
  calc            \* one evaluation of the payout arithmetic: its inputs and its result

vars == <<calc, solverAddress, ledger, jobs, tasks, nextTask, outcomes, now, delayed, alerts, reactCalls, settleCalls>>

\* ------------------------------------------------------- pure code fragments
\* the key without the order id
ExternalId_NoOrder(orderId) == <<"", "solver">>

\* one key for the jobs of all orders
ExternalId_Shared(orderId) == <<"o1", "solver">>

\* `${orderId}-solver`
ExternalId(orderId) == <<orderId, "solver">>

ExternalIds == {ExternalId(o) : o \in Orders}

\* the transaction id the provider broadcasts for the job of an order
TxIdOf(o) == IF o = "o1" THEN "0xdead01" ELSE "0xdead02"

\* JavaScript truthiness of blockchainDetails?.[0]?.blockchainTxId
Truthy(txid) == txid \notin {NoTx, ""}

\* a switch with one case too many
ProcessRoute_AlsoAuction(status) ==
  CASE status \in {USER_INITIATED, AUCTION_IN_PROGRESS} -> "react_getOrder"
    [] status = WAIT_FOR_SOLVER_TX -> "settle_getOrder"
    [] OTHER -> "done"

\* switch (Number(status)) of process()
ProcessRoute(status) ==
  CASE status = USER_INITIATED -> "react_getOrder"
    [] status = WAIT_FOR_SOLVER_TX -> "settle_getOrder"
    [] OTHER -> "done"

\* one status too many in the list
IsReactable_AlsoMatched(status) == status \in {USER_INITIATED, AUCTION_IN_PROGRESS, MATCHED}

\* [USER_INITIATED, AUCTION_IN_PROGRESS].includes(Number(status))
IsReactable(status) == status \in {USER_INITIATED, AUCTION_IN_PROGRESS}

\* the deadline converted to milliseconds twice
AuctionExpired_ScaledTwice(createdAt, auctionDuration, t) ==
  (createdAt + auctionDuration) * MsPerSec * MsPerSec < t

\* (createdAt + pricingParams.auctionDuration) * 1000n < Date.now()
AuctionExpired(createdAt, auctionDuration, t) ==
  (createdAt + auctionDuration) * MsPerSec < t

\* if (status !== BigInt(OrderStatus.WAIT_FOR_SOLVER_TX)) return;
WrongStatus(status) == status # WAIT_FOR_SOLVER_TX

\* the solver check left out
WrongSolver_Never(solver, self) == FALSE

\* if (solver !== this.solverAddress) return;
WrongSolver(solver, self) == solver # self

\* the status compared with a word the provider never sends
IsConfirmed_WrongWord(wd) == Truthy(wd.txid) /\ wd.status = "confirmed"

\* the looser rule: a transaction id is enough
IsConfirmed_TxOnly(wd) == Truthy(wd.txid)

\* the transaction id not looked at
IsConfirmed_StatusOnly(wd) == wd.status = "completed"

\* blockchainTxId && withdrawal.status === 'completed'
IsConfirmed(wd) == Truthy(wd.txid) /\ wd.status = "completed"

\* withdrawal.terminatedAt
IsTerminated(wd) == wd.terminatedAt

\* ------------------------------------------------------------------ frames
\* a frame is one process() invocation or one poller: pc is its position, event
\* the status process() was given, status / solver / t what it read, wd the
\* `withdrawal` object it holds, via the call site that started this poll
\* ("start": line 133, "timer": line 166), failed whether its last fetch threw,
\* tries the attempts expRetry has made
NoWd == [transactionId |-> <<>>, status |-> "absent", txid |-> NoTx, terminatedAt |-> FALSE]

NewFrame ==
  [pc |-> "", order |-> "", event |-> "", status |-> "", solver |-> "", t |-> 0, addr |-> "",
   wd |-> NoWd, via |-> "", failed |-> FALSE, tries |-> 0]

\* the job object a payment API call answers with
Snapshot(k) ==
  [transactionId |-> k, status |-> jobs[k].status, txid |-> jobs[k].txid,
   terminatedAt |-> jobs[k].terminatedAt]

\* frame f goes on as frame g
Step(f, g) == tasks' = (tasks (-) SetToBag({f})) (+) SetToBag({g})

\* frame f is over: process() returned or threw, or the poller stopped
Finish(f, outcome) ==
  /\ tasks' = tasks (-) SetToBag({f})
  /\ outcomes' = outcomes \cup {<<f.order, outcome>>}

\* how a process() call that matched no case of the switch is recorded
Ignored(status) ==
  CASE status = USER_INITIATED -> "ignored USER_INITIATED"
    [] status = AUCTION_IN_PROGRESS -> "ignored AUCTION_IN_PROGRESS"
    [] status = MATCHED -> "ignored MATCHED"
    [] status = WAIT_FOR_SOLVER_TX -> "ignored WAIT_FOR_SOLVER_TX"
    [] OTHER -> "ignored SETTLED"

\* outcomes with which process() rejects
Thrown ==
  {"getOrderFailed", "depositFailed", "depositEmpty", "assetFailed", "assetNotFound",
   "rangeError", "recoverFailed", "recoverEmpty"}

AlertKinds == {"createFailed", "terminated", "pollerFailed"}

\* log.error(`[Critical Alert]: ...`)
Alert(o, kind) == alerts' = [alerts EXCEPT ![<<o, kind>>] = @ + 1]

\* no payout evaluation under observation
NoCalc ==
  [quoteAmount |-> 0, baseAmount |-> 0, p |-> 0, k |-> 0, baseDecimals |-> 0,
   quoteDecimals |-> 0, done |-> FALSE, threw |-> FALSE, value |-> 0]

Init ==
  /\ calc = NoCalc
  /\ solverAddress \in {Undefined, Self}
  /\ ledger = [o \in Orders |-> [status |-> USER_INITIATED, solver |-> Undefined]]
  /\ jobs = [k \in ExternalIds |-> NoJob]
  /\ tasks = EmptyBag
  /\ nextTask = 0
  /\ outcomes = {}
  /\ now = 0
  /\ delayed = {}
  /\ alerts = [x \in Orders \X AlertKinds |-> 0]
  /\ reactCalls = {}
  /\ settleCalls = {}


\* ---------------------------------------------------------- amount arithmetic
\* parseInt(decimals, 10) of a digit string, highest digit first
RECURSIVE ParseInt(_)
ParseInt(ds) == IF ds = <<>> THEN 0 ELSE 10 * ParseInt(SubSeq(ds, 1, Len(ds) - 1)) + ds[Len(ds)]

RECURSIVE Pow10(_)
Pow10(n) == IF n = 0 THEN 1 ELSE 10 * Pow10(n - 1)

\* BigInt product of a digit sequence (lowest first) and a number
RECURSIVE MulDigits(_, _, _)
MulDigits(ds, m, carry) ==
  IF ds = <<>>
  THEN IF carry = 0 THEN <<>> ELSE <<carry % 10>> \o MulDigits(<<>>, m, carry \div 10)
  ELSE <<(ds[1] * m + carry) % 10>> \o MulDigits(Tail(ds), m, (ds[1] * m + carry) \div 10)

\* the value of a digit sequence (lowest first)
RECURSIVE DigitsValue(_)
DigitsValue(ds) == IF ds = <<>> THEN 0 ELSE ds[1] + 10 * DigitsValue(Tail(ds))

\* pricingParams.quoteAmount || baseAmount * price_e18 / 10n ** BigInt(bd + 18 - qd);
\* 10n ** of a negative BigInt throws RangeError
QuoteAmountUnits(quoteAmount, baseAmount, price_e18, baseDecimals, quoteDecimals) ==
  LET e == baseDecimals + PriceDecimals - quoteDecimals
      product == MulDigits(price_e18, baseAmount, 0)
  IN  IF quoteAmount # 0 THEN [threw |-> FALSE, value |-> quoteAmount]
      ELSE IF e < 0 THEN [threw |-> TRUE, value |-> 0]
      ELSE IF e >= Len(product) THEN [threw |-> FALSE, value |-> 0]
      ELSE [threw |-> FALSE, value |-> DigitsValue(SubSeq(product, e + 1, Len(product)))]

\* Big(units).div(Big(10).pow(decimals)).toFixed(decimals)
ToFixed(units, decimals) ==
  [whole |-> units \div Pow10(decimals), frac |-> units % Pow10(decimals), dp |-> decimals]

\* getTokenInfo(tokenAddress, networkId) when its API calls answer with an asset
TokenInfo(tokenAddress, networkId) ==
  LET assetId == IF tokenAddress = "0x0" THEN NativeAssetId[networkId] ELSE TokenAssetId[networkId]
  IN  [assetId |-> assetId, decimals |-> ParseInt(AssetDecimals[assetId])]

\* how the provider shows that nothing was broadcast yet: no blockchainDetails
\* entry, or one with an empty blockchainTxId
Unbroadcast(o) == IF OrderData[o].quoteNetwork = "ETH" THEN NoTx ELSE ""

\* the job createTransaction makes of its request
Withdrawal(o) ==
  LET d == OrderData[o]
      quote == TokenInfo(d.quoteToken, d.quoteNetwork)
      units == QuoteAmountUnits(d.quoteAmount, d.baseAmount, d.price_e18,
                                TokenInfo(d.baseToken, d.baseNetwork).decimals, quote.decimals)
  IN  [order |-> o, amount |-> ToFixed(units.value, quote.decimals), assetId |-> quote.assetId,
       toAddress |-> d.userAddress, status |-> "pending", txid |-> Unbroadcast(o),
       terminatedAt |-> FALSE]

\* ------------------------------------------------- the dispatcher (config.js)
\* indexer.addProcessor(async (event) => solver.process(orderId, status)):
\* process() starts the handler its switch selects, or returns at once
Spawn(o, s) ==
  LET route == ProcessRoute(s)
  IN  IF route = "done"
      THEN /\ outcomes' = outcomes \cup {<<o, Ignored(s)>>}
           /\ UNCHANGED tasks
      ELSE /\ tasks' = tasks (+) SetToBag({[NewFrame EXCEPT !.pc = route, !.order = o, !.event = s]})
           /\ UNCHANGED outcomes

\* a notification for a status the order has reached, possibly stale or repeated
Deliver(o, s) ==
  /\ nextTask < MaxTasks
  /\ Rank(s) <= Rank(ledger[o].status)
  /\ nextTask' = nextTask + 1
  /\ Spawn(o, s)
  /\ UNCHANGED <<calc, solverAddress, ledger, jobs, now, delayed, alerts, reactCalls, settleCalls>>

\* ------------------------------------------------------------- solverReact
\* await getOrder; the status check; the deadline check against Date.now()
ReactGetOrder(f) ==
  LET o == f.order
      d == OrderData[o]
  IN  /\ f.pc = "react_getOrder"
      /\ \E outcome \in {"ok", "throw"} :
           IF outcome = "throw"
           THEN Finish(f, "getOrderFailed") /\ now' = now
           ELSE IF ~IsReactable(ledger[o].status)
           THEN Finish(f, "stale") /\ now' = now
           ELSE \E t \in Instants :
                  /\ t >= now
                  /\ now' = t
                  /\ IF AuctionExpired(d.createdAt, d.auctionDuration, t)
                     THEN Finish(f, "expired")
                     ELSE /\ Step(f, [f EXCEPT !.pc = "react_deposit", !.status = ledger[o].status, !.t = t])
                          /\ UNCHANGED outcomes
      /\ UNCHANGED <<calc, solverAddress, ledger, jobs, nextTask, delayed, alerts, reactCalls, settleCalls>>

\* await bronApi.addresses.getDepositAddresses; const { addresses: [{ address }] }
ReactDeposit(f) ==
  /\ f.pc = "react_deposit"
  /\ \E outcome \in {"ok", "throw", "empty", "noaddress"} :
       CASE outcome = "ok" ->
              /\ Step(f, [f EXCEPT !.pc = "react_commit", !.addr = OrderData[f.order].baseNetwork])
              /\ UNCHANGED outcomes
         [] outcome = "noaddress" -> Finish(f, "noaddress")
         [] outcome = "empty" -> Finish(f, "depositEmpty")
         [] OTHER -> Finish(f, "depositFailed")
  /\ UNCHANGED <<calc, solverAddress, ledger, jobs, nextTask, now, delayed, alerts, reactCalls, settleCalls>>

\* the price of the trade offered instead of the ceiling
ReactPrice_Quoted(pricingParams) == pricingParams.price_e18

\* let price = pricingParams.maxPrice_e18
ReactPrice(pricingParams) == pricingParams.maxPrice_e18

\* try { tx = await orderEngine.solverReact(...); await tx.wait() } catch { log }
ReactCommit(f) ==
  LET o == f.order
      call == [order |-> o, address |-> f.addr, price |-> ReactPrice(OrderData[o]),
               at |-> ledger[o].status]
  IN  /\ f.pc = "react_commit"
      /\ reactCalls' = reactCalls \cup {call}
      /\ \E accepted \in BOOLEAN :
           /\ accepted => IsReactable(ledger[o].status)
           /\ ledger' = IF accepted
                        THEN [ledger EXCEPT ![o].status = AUCTION_IN_PROGRESS]
                        ELSE ledger
           /\ Finish(f, IF accepted THEN "committed" ELSE "commitFailed")
      /\ UNCHANGED <<calc, solverAddress, jobs, nextTask, now, delayed, alerts, settleCalls>>

\* ------------------------------------------------------ sendSolverTransaction
\* await getOrder; the two early returns
SettleGetOrder(f) ==
  LET o == f.order
  IN  /\ f.pc = "settle_getOrder"
      /\ \E outcome \in {"ok", "throw"} :
           IF outcome = "throw" THEN Finish(f, "getOrderFailed")
           ELSE IF WrongStatus(ledger[o].status) THEN Finish(f, "wrongStatus")
           ELSE IF WrongSolver(ledger[o].solver, solverAddress) THEN Finish(f, "wrongSolver")
           ELSE /\ Step(f, [f EXCEPT !.pc = "settle_base", !.status = ledger[o].status,
                                     !.solver = ledger[o].solver])
                /\ UNCHANGED outcomes
      /\ UNCHANGED <<calc, solverAddress, ledger, jobs, nextTask, now, delayed, alerts, reactCalls, settleCalls>>

\* the outcomes of one getTokenInfo call: the native branch destructures no list
TokenOutcomes(tokenAddress) ==
  IF tokenAddress = "0x0" THEN {"ok", "throw"} ELSE {"ok", "throw", "empty"}

\* const baseToken = await this.getTokenInfo(baseParams...)
SettleBase(f) ==
  /\ f.pc = "settle_base"
  /\ \E outcome \in TokenOutcomes(OrderData[f.order].baseToken) :
       CASE outcome = "ok" -> Step(f, [f EXCEPT !.pc = "settle_quote"]) /\ UNCHANGED outcomes
         [] outcome = "empty" -> Finish(f, "assetNotFound")
         [] OTHER -> Finish(f, "assetFailed")
  /\ UNCHANGED <<calc, solverAddress, ledger, jobs, nextTask, now, delayed, alerts, reactCalls, settleCalls>>

\* const quoteToken = await this.getTokenInfo(quoteParams...); the amount
SettleQuote(f) ==
  LET d == OrderData[f.order]
      units == QuoteAmountUnits(d.quoteAmount, d.baseAmount, d.price_e18,
                                TokenInfo(d.baseToken, d.baseNetwork).decimals,
                                TokenInfo(d.quoteToken, d.quoteNetwork).decimals)
  IN  /\ f.pc = "settle_quote"
      /\ \E outcome \in TokenOutcomes(d.quoteToken) :
           CASE outcome = "ok" /\ ~units.threw ->
                  Step(f, [f EXCEPT !.pc = "settle_create"]) /\ UNCHANGED outcomes
             [] outcome = "ok" -> Finish(f, "rangeError")
             [] outcome = "empty" -> Finish(f, "assetNotFound")
             [] OTHER -> Finish(f, "assetFailed")
      /\ UNCHANGED <<calc, solverAddress, ledger, jobs, nextTask, now, delayed, alerts, reactCalls, settleCalls>>

\* the poller call awaited by sendSolverTransaction
Detached_Awaited == FALSE

\* this.asyncWaitingForBlockchainTxHash(orderId, withdrawal).catch(...) is not
\* awaited: the promise is left to run on its own
Detached == TRUE

\* sendSolverTransaction starts the poller with job object wd; being detached
\* from it, it returns at once and so does process()
StartPoller(f, wd) ==
  /\ Step(f, [f EXCEPT !.pc = "poll", !.wd = wd, !.via = "start"])
  /\ outcomes' = IF Detached THEN outcomes \cup {<<f.order, "returned">>} ELSE outcomes

\* try { withdrawal = await createTransaction(...) } catch (e) { ... }; on
\* success the poller starts and sendSolverTransaction returns
SettleCreate(f) ==
  LET o == f.order
      k == ExternalId(o)
  IN  /\ f.pc = "settle_create"
      /\ \E outcome \in {"answer", "error"} :
           CASE outcome = "answer" /\ jobs[k] = NoJob ->
                  /\ jobs' = [jobs EXCEPT ![k] = Withdrawal(o)]
                  /\ StartPoller(f, [transactionId |-> k, status |-> "pending",
                                     txid |-> Unbroadcast(o), terminatedAt |-> FALSE])
                  /\ UNCHANGED <<delayed, alerts>>
             [] outcome = "answer" /\ jobs[k] # NoJob ->
                  /\ Step(f, [f EXCEPT !.pc = "settle_recover"])
                  /\ UNCHANGED <<jobs, delayed, alerts, outcomes>>
             [] OTHER ->
                  /\ Finish(f, "createFailed")
                  /\ Alert(o, "createFailed")
                  /\ delayed' = delayed \cup {o}
                  /\ UNCHANGED jobs
      /\ UNCHANGED <<calc, solverAddress, ledger, nextTask, now, reactCalls, settleCalls>>

\* const { transactions: [existing] } = await getTransactions(...); line 130
\* reads withdrawal.transactionId; then the poller starts
SettleRecover(f) ==
  LET k == ExternalId(f.order)
  IN  /\ f.pc = "settle_recover"
      /\ \E outcome \in {"ok", "throw", "empty"} :
           CASE outcome = "ok" -> StartPoller(f, Snapshot(k))
             [] outcome = "empty" -> Finish(f, "recoverEmpty")
             [] OTHER -> Finish(f, "recoverFailed")
      /\ UNCHANGED <<calc, solverAddress, ledger, jobs, nextTask, now, delayed, alerts, reactCalls, settleCalls>>

\* the event put on the queue with the status of a new order
Requeued_AsInitiated(status) == USER_INITIATED

\* { orderId, status }: the status sendSolverTransaction read from the ledger
Requeued(status) == status

\* setTimeout(() => this.delayedQueue.add({ orderId, status }), 15000)
Requeue(o) ==
  /\ o \in delayed
  /\ nextTask < MaxTasks
  /\ delayed' = delayed \ {o}
  /\ nextTask' = nextTask + 1
  /\ Spawn(o, Requeued(WAIT_FOR_SOLVER_TX))
  /\ UNCHANGED <<calc, solverAddress, ledger, jobs, now, alerts, reactCalls, settleCalls>>

\* ------------------------------------------- asyncWaitingForBlockchainTxHash
\* a failed fetch taken for the end of the job
Fetched_ErrorIsTerminal(held, outcome) ==
  IF outcome = "ok" THEN Snapshot(held.transactionId) ELSE [held EXCEPT !.terminatedAt = TRUE]

\* try { withdrawal = await getTransactionById(withdrawal.transactionId) }
\* catch (e) { log.error(...) }: after a failure `withdrawal` is still the
\* object the poller was given
Fetched(held, outcome) ==
  IF outcome = "ok" THEN Snapshot(held.transactionId) ELSE held

\* the two checks in the other order
PollDecision_TerminatedFirst(wd) ==
  IF IsTerminated(wd) THEN "terminated"
  ELSE IF IsConfirmed(wd) THEN "submit"
  ELSE "timer"

\* if (blockchainTxId && status === 'completed') { submit; return }
\* if (withdrawal.terminatedAt) { alert; return }  otherwise the timer
PollDecision(wd) ==
  IF IsConfirmed(wd) THEN "submit"
  ELSE IF IsTerminated(wd) THEN "terminated"
  ELSE "timer"

\* await sleep(1000); try { withdrawal = await getTransactionById(...) } catch
\* { log }; then the confirmed / terminated / re-schedule decision
PollWith(f, outcome) ==
  LET wd == Fetched(f.wd, outcome)
  IN  /\ f.pc = "poll"
      /\ IF PollDecision(wd) = "submit"
         THEN /\ Step(f, [f EXCEPT !.pc = "submit", !.wd = wd])
              /\ UNCHANGED <<alerts, outcomes>>
         ELSE IF PollDecision(wd) = "terminated"
         THEN /\ Finish(f, "terminated")
              /\ Alert(f.order, "terminated")
         ELSE /\ Step(f, [f EXCEPT !.pc = "timer", !.wd = wd, !.via = "", !.failed = (outcome # "ok")])
              /\ UNCHANGED <<alerts, outcomes>>
      /\ UNCHANGED <<calc, solverAddress, ledger, jobs, nextTask, now, delayed, reactCalls, settleCalls>>

Poll(f) == \E outcome \in {"ok", "throw"} : PollWith(f, outcome)

\* setTimeout(() => this.asyncWaitingForBlockchainTxHash(orderId, withdrawal), 2000)
Reschedule(f) ==
  /\ f.pc = "timer"
  /\ Step(f, [f EXCEPT !.pc = "poll", !.via = "timer", !.failed = FALSE])
  /\ UNCHANGED <<calc, solverAddress, ledger, jobs, nextTask, outcomes, now, delayed, alerts, reactCalls, settleCalls>>

\* the timer's call left without a .catch
CatchAt_StartOnly(via) == via = "start"

\* both calls of asyncWaitingForBlockchainTxHash, the one of line 133 and the
\* one inside setTimeout at line 166, carry .catch(error => log.error(...))
CatchAt(via) == via \in {"start", "timer"}

\* one attempt of expRetry(async () => setSolverTxOnQuoteNetwork(orderId,
\* blockchainTxId)); when the attempts are used up the rejection reaches the
\* .catch of the caller, which logs a critical alert
Submit(f) ==
  LET o == f.order
      call == [order |-> o, txid |-> f.wd.txid, at |-> ledger[o].status]
  IN  /\ f.pc = "submit"
      /\ settleCalls' = settleCalls \cup {call}
      /\ \E accepted \in BOOLEAN :
           /\ accepted => (ledger[o].status = WAIT_FOR_SOLVER_TX /\ ledger[o].solver = Self)
           /\ ledger' = IF accepted THEN [ledger EXCEPT ![o].status = SETTLED] ELSE ledger
           /\ IF accepted
              THEN Finish(f, "confirmed") /\ UNCHANGED alerts
              ELSE IF f.tries + 1 >= MaxRetries
              THEN IF CatchAt(f.via)
                   THEN Finish(f, "retriesExhausted") /\ Alert(o, "pollerFailed")
                   ELSE Finish(f, "unhandledRejection") /\ UNCHANGED alerts
              ELSE Step(f, [f EXCEPT !.tries = @ + 1]) /\ UNCHANGED <<alerts, outcomes>>
      /\ UNCHANGED <<calc, solverAddress, jobs, nextTask, now, delayed, reactCalls>>

\* ------------------------------------------------------------ environment
\* the ledger moves an order forward; a match names the winning solver; the
\* payout of another solver settles the order
LedgerAdvance(o) ==
  LET st == ledger[o].status
  IN  /\ \/ /\ st = USER_INITIATED
            /\ ledger' = [ledger EXCEPT ![o].status = AUCTION_IN_PROGRESS]
         \/ /\ st = AUCTION_IN_PROGRESS
            /\ \E w \in {Self, Other} :
                 ledger' = [ledger EXCEPT ![o] = [status |-> MATCHED, solver |-> w]]
         \/ /\ st = MATCHED
            /\ ledger' = [ledger EXCEPT ![o].status = WAIT_FOR_SOLVER_TX]
         \/ /\ st = WAIT_FOR_SOLVER_TX
            /\ ledger[o].solver = Other
            /\ ledger' = [ledger EXCEPT ![o].status = SETTLED]
      /\ UNCHANGED <<calc, solverAddress, jobs, tasks, nextTask, outcomes, now, delayed, alerts, reactCalls, settleCalls>>

\* the provider works on a withdrawal: it broadcasts (the transaction id
\* appears), completes, or fails; a terminated job changes no more
JobProgress(k) ==
  LET j == jobs[k]
  IN  /\ j # NoJob
      /\ ~j.terminatedAt
      /\ \/ /\ ~Truthy(j.txid)
            /\ jobs' = [jobs EXCEPT ![k].txid = TxIdOf(j.order)]
         \/ /\ j.status = "pending"
            /\ \E t \in BOOLEAN :
                 jobs' = [jobs EXCEPT ![k].status = "completed", ![k].terminatedAt = t]
         \/ /\ j.status = "completed"
            /\ jobs' = [jobs EXCEPT ![k].terminatedAt = TRUE]
         \/ /\ j.status = "pending"
            /\ jobs' = [jobs EXCEPT ![k].status = "failed", ![k].terminatedAt = TRUE]
      /\ UNCHANGED <<calc, solverAddress, ledger, tasks, nextTask, outcomes, now, delayed, alerts, reactCalls, settleCalls>>

Frames == BagToSet(tasks)

Next ==
  \/ \E o \in Orders, s \in Statuses : Deliver(o, s)
  \/ \E o \in Orders : Requeue(o)
  \/ \E f \in Frames : ReactGetOrder(f)
  \/ \E f \in Frames : ReactDeposit(f)
  \/ \E f \in Frames : ReactCommit(f)
  \/ \E f \in Frames : SettleGetOrder(f)
  \/ \E f \in Frames : SettleBase(f)
  \/ \E f \in Frames : SettleQuote(f)
  \/ \E f \in Frames : SettleCreate(f)
  \/ \E f \in Frames : SettleRecover(f)
  \/ \E f \in Frames : Poll(f)
  \/ \E f \in Frames : Reschedule(f)
  \/ \E f \in Frames : Submit(f)
  \/ \E o \in Orders : LedgerAdvance(o)
  \/ \E k \in ExternalIds : JobProgress(k)

Spec == Init /\ [][Next]_vars

\* the event loop runs every timer and continuation that is ready; a poller
\* whose fetches can succeed is not answered with errors forever
Fairness ==
  \A o \in Orders :
    /\ WF_vars(\E f \in Frames : f.order = o /\ Reschedule(f))
    /\ WF_vars(\E f \in Frames : f.order = o /\ Poll(f))
    /\ SF_vars(\E f \in Frames : f.order = o /\ PollWith(f, "ok"))
    /\ WF_vars(\E f \in Frames : f.order = o /\ Submit(f))

FairSpec == Init /\ [][Next]_vars /\ Fairness

\* ------------------------------------------- the payout arithmetic on its own
\* decimal digits of a number, lowest first
RECURSIVE ToDigits(_)
ToDigits(n) == IF n = 0 THEN <<>> ELSE <<n % 10>> \o ToDigits(n \div 10)

\* pricingParams.price_e18 = p * 10^k as the BigInt the ledger returns
PriceDigits(p, k) == Zeros(k) \o ToDigits(p)

\* the exponent of line 88
Exponent(baseDecimals, quoteDecimals) == baseDecimals + PriceDecimals - quoteDecimals

\* pricing parameters and token decimals a settlement can meet; kept to those
\* whose payout has at most nine digits
AmountInputs ==
  {c \in [quoteAmount : {0, 1500}, baseAmount : {0, 7, 1000000}, p : {1, 2, 15},
          k : {0, 17, 18}, baseDecimals : {0, 6, 18}, quoteDecimals : {0, 6, 18, 24},
          done : {FALSE}, threw : {FALSE}, value : {0}] :
     Len(MulDigits(PriceDigits(c.p, c.k), c.baseAmount, 0))
       - Exponent(c.baseDecimals, c.quoteDecimals) <= 9}

AmountInit ==
  /\ calc \in AmountInputs
  /\ solverAddress = Self
  /\ ledger = [o \in Orders |-> [status |-> WAIT_FOR_SOLVER_TX, solver |-> Self]]
  /\ jobs = [k \in ExternalIds |-> NoJob]
  /\ tasks = EmptyBag
  /\ nextTask = 0
  /\ outcomes = {}
  /\ now = 0
  /\ delayed = {}
  /\ alerts = [x \in Orders \X AlertKinds |-> 0]
  /\ reactCalls = {}
  /\ settleCalls = {}

\* lines 87-88 evaluated on the inputs
Compute ==
  LET r == QuoteAmountUnits(calc.quoteAmount, calc.baseAmount, PriceDigits(calc.p, calc.k),
                            calc.baseDecimals, calc.quoteDecimals)
  IN  /\ ~calc.done
      /\ calc' = [calc EXCEPT !.done = TRUE, !.threw = r.threw, !.value = r.value]
      /\ UNCHANGED <<solverAddress, ledger, jobs, tasks, nextTask, outcomes, now, delayed,
                     alerts, reactCalls, settleCalls>>

AmountNext == Compute

AmountSpec == AmountInit /\ [][AmountNext]_vars


\* ------------------------------------------------------------------ claims
PollerPcs == {"poll", "timer", "submit"}

SettlePcs == {"settle_base", "settle_quote", "settle_create", "settle_recover"}

\* the pollers running for order o
PollersOf(o) == {f \in Frames : f.order = o /\ f.pc \in PollerPcs}

\* the number of invocations in flight
NumFrames == BagCardinality(tasks)

\* the withdrawal jobs the payment API holds for order o
JobsOf(o) == {k \in DOMAIN jobs : jobs[k] # NoJob /\ jobs[k].order = o}

\* C1: whatever settlement invocations run for an order, the payment API holds
\* at most one withdrawal job for it, that job is stored under the key
\* "<orderId>-solver", and every poller of the order (started after a create or
\* after an 'already exists' recovery) holds exactly that job.
C1_OneWithdrawalPerOrder ==
  \A o \in Orders :
    /\ Cardinality(JobsOf(o)) <= 1
    /\ \A k \in JobsOf(o) : k = <<o, "solver">>
    /\ \A f \in PollersOf(o) :
         /\ f.wd.transactionId = <<o, "solver">>
         /\ jobs[f.wd.transactionId].order = o

\* two invocations for one order have both reached the poller: the second got
\* 'already exists' and recovered the job of the first
C1_Witness ==
  \E o \in Orders :
    /\ JobsOf(o) # {}
    /\ \/ \E f \in PollersOf(o) : CopiesIn(f, tasks) >= 2
       \/ Cardinality(PollersOf(o)) >= 2

\* C2: every setSolverTxOnQuoteNetwork call carries a non-empty transaction
\* id, and a poller is inside the submission only with a job object that had a
\* non-empty blockchainTxId and status 'completed' in its poll.
C2_SubmitsOnlyConfirmedTx ==
  /\ \A c \in settleCalls : c.txid # NoTx /\ c.txid # ""
  /\ \A f \in Frames :
       f.pc = "submit" => (f.wd.txid # NoTx /\ f.wd.txid # "" /\ f.wd.status = "completed")

\* a submission was made
C2_Witness == \E c \in settleCalls : c.txid = TxIdOf(c.order)

\* the job of order o has its terminal marker and no transaction id
TerminalNoTx(o) ==
  \E k \in JobsOf(o) : jobs[k].terminatedAt /\ jobs[k].txid \in {NoTx, ""}

\* how many pollers run for order o
CountPollers(o) == BagCardinality([f \in PollersOf(o) |-> CopiesIn(f, tasks)])

TerminatedAlerts(o) == alerts[<<o, "terminated">>]

\* C3 as stated: a job that reached its terminal marker with no transaction id
\* causes no setSolverTxOnQuoteNetwork call for its order and produces exactly
\* one critical alert (here: never more than one).
C3_OneAlertPerJob ==
  \A o \in Orders :
    TerminalNoTx(o) =>
      /\ \A c \in settleCalls : c.order # o
      /\ TerminatedAlerts(o) <= 1

\* C3 as amended: such a job causes no setSolverTxOnQuoteNetwork call for its
\* order and no poller of it enters the submission; every poller that stops on
\* it logs exactly one 'terminated' critical alert, and every such alert is the
\* last act of one poller, which is gone afterwards (one alert per poller, so
\* duplicate events for the order give one alert each).
C3_OneAlertPerPoller ==
  /\ [](\A o \in Orders :
          TerminalNoTx(o) =>
            /\ \A c \in settleCalls : c.order # o
            /\ \A f \in PollersOf(o) : f.pc # "submit")
  /\ [][\A o \in Orders :
          /\ (TerminalNoTx(o) /\ CountPollers(o)' < CountPollers(o)) =>
               /\ CountPollers(o)' = CountPollers(o) - 1
               /\ TerminatedAlerts(o)' = TerminatedAlerts(o) + 1
          /\ TerminatedAlerts(o)' # TerminatedAlerts(o) =>
               /\ TerminatedAlerts(o)' = TerminatedAlerts(o) + 1
               /\ CountPollers(o)' = CountPollers(o) - 1
               /\ <<o, "terminated">> \in outcomes']_vars

\* a poller has stopped on a terminated job without a transaction id, with
\* its alert logged and nothing submitted
C3_Witness ==
  \E o \in Orders :
    /\ TerminalNoTx(o)
    /\ TerminatedAlerts(o) >= 1
    /\ PollersOf(o) = {}

\* C4: an invocation of sendSolverTransaction that reads an order whose status
\* is not WAIT_FOR_SOLVER_TX or whose solver is not this process ends there:
\* it creates no withdrawal, starts no poller, writes nothing to the ledger;
\* and every invocation past the check, and every poller, read status
\* WAIT_FOR_SOLVER_TX and its own address as the solver.
C4_SettleOnlyOwnWaitingOrders ==
  /\ [](\A f \in Frames :
          f.pc \in SettlePcs \cup PollerPcs =>
            (f.status = WAIT_FOR_SOLVER_TX /\ f.solver = Self))
  /\ [][\A f \in Frames :
          (/\ f.pc = "settle_getOrder"
           /\ CopiesIn(f, tasks') < CopiesIn(f, tasks)
           /\ ~(ledger[f.order].status = WAIT_FOR_SOLVER_TX /\ ledger[f.order].solver = Self))
          => /\ jobs' = jobs
             /\ ledger' = ledger
             /\ settleCalls' = settleCalls
             /\ delayed' = delayed
             /\ alerts' = alerts
             /\ NumFrames' = NumFrames - 1]_vars

\* settlement was invoked for an order that waits for the payout of another
\* solver, and returned at the solver check
C4_Witness ==
  \E o \in Orders :
    /\ <<o, "wrongSolver">> \in outcomes
    /\ ledger[o].solver = Other
    /\ solverAddress = Self
    /\ jobs[ExternalId(o)] = NoJob

\* the job of order o is completed and shows its transaction id
CompletedWithTx(o) ==
  \E k \in JobsOf(o) : jobs[k].status = "completed" /\ jobs[k].txid = TxIdOf(o)

\* the ledger was sent setSolverTxOnQuoteNetwork(o, T), T the job's transaction id
Received(o) == \E c \in settleCalls : c.order = o /\ c.txid = TxIdOf(o)

\* C5: once the withdrawal job of an order (which only a settlement invocation
\* for a WAIT_FOR_SOLVER_TX order of this solver creates) is completed with
\* transaction id T, the ledger is eventually sent
\* setSolverTxOnQuoteNetwork(orderId, T), pollers and timers being run fairly.
C5_CompletedJobIsReported == \A o \in Orders : CompletedWithTx(o) ~> Received(o)

\* a completed job whose transaction id was sent to the ledger by a poller
\* of an order that waited for this solver
C5_Witness ==
  \E o \in Orders :
    /\ CompletedWithTx(o)
    /\ Received(o)
    /\ ledger[o].solver = Self
    /\ ledger[o].status \in {WAIT_FOR_SOLVER_TX, SETTLED}

\* C6: the poller has an upper bound: whenever pollers run for an order,
\* eventually none does.
C6_PollerStops == \A o \in Orders : (PollersOf(o) # {}) ~> (PollersOf(o) = {})

\* C7: no invocation of process(orderId, status) ends by throwing.
C7_NoErrorEscapes == \A x \in outcomes : x[2] \notin Thrown

\* C8: every setSolverTxOnQuoteNetwork call is issued while the order is at
\* WAIT_FOR_SOLVER_TX and every solverReact call while it is at USER_INITIATED
\* or AUCTION_IN_PROGRESS.
C8_NoWriteForLeftState ==
  /\ \A c \in settleCalls : c.at = WAIT_FOR_SOLVER_TX
  /\ \A c \in reactCalls : c.at \in {USER_INITIATED, AUCTION_IN_PROGRESS}

\* C9: an invocation of solverReact that reads an order whose status is not
\* USER_INITIATED or AUCTION_IN_PROGRESS ends there with no ledger write; every
\* invocation past the check read one of the two; and a solverReact call is
\* issued only by such an invocation, for its own order.
C9_ReactOnlyEarlyOrders ==
  /\ [](\A f \in Frames :
          f.pc \in {"react_deposit", "react_commit"} =>
            f.status \in {USER_INITIATED, AUCTION_IN_PROGRESS})
  /\ [][/\ \A f \in Frames :
             (/\ f.pc = "react_getOrder"
              /\ CopiesIn(f, tasks') < CopiesIn(f, tasks)
              /\ ledger[f.order].status \notin {USER_INITIATED, AUCTION_IN_PROGRESS})
             => /\ reactCalls' = reactCalls
                /\ ledger' = ledger
                /\ NumFrames' = NumFrames - 1
        /\ reactCalls' # reactCalls =>
             \E f \in Frames :
               /\ f.pc = "react_commit"
               /\ f.status \in {USER_INITIATED, AUCTION_IN_PROGRESS}
               /\ \A c \in reactCalls' \ reactCalls : c.order = f.order]_vars

\* the reactor was invoked for an order that had moved on, and returned
C9_Witness ==
  \E o \in Orders :
    /\ <<o, "stale">> \in outcomes
    /\ \A c \in reactCalls : c.order # o

\* the auction deadline of an order, in milliseconds
DeadlineMs(o) == (OrderData[o].createdAt + OrderData[o].auctionDuration) * MsPerSec

\* C10 as stated: no invocation goes on towards the commitment when the clock
\* it read shows now >= deadline.
C10_NoCommitAtOrAfterDeadline ==
  \A f \in Frames :
    f.pc \in {"react_deposit", "react_commit"} => f.t < DeadlineMs(f.order)

\* C10 as amended: no invocation goes on towards the commitment when the
\* clock it read shows now > deadline (at now = deadline it does go on); an
\* invocation that reads a later clock ends with no ledger write; and a
\* solverReact call is issued only by an invocation whose clock was not past
\* the deadline.
C10_NoCommitAfterDeadline ==
  /\ [](\A f \in Frames :
          f.pc \in {"react_deposit", "react_commit"} => f.t <= DeadlineMs(f.order))
  /\ [][/\ \A f \in Frames :
             (/\ f.pc = "react_getOrder"
              /\ CopiesIn(f, tasks') < CopiesIn(f, tasks)
              /\ now' > DeadlineMs(f.order))
             => /\ reactCalls' = reactCalls
                /\ ledger' = ledger
                /\ NumFrames' = NumFrames - 1
        /\ reactCalls' # reactCalls =>
             \E f \in Frames :
               /\ f.pc = "react_commit"
               /\ f.t <= DeadlineMs(f.order)
               /\ \A c \in reactCalls' \ reactCalls : c.order = f.order]_vars

\* the reactor found an auction expired and made no commitment, and another
\* invocation read the clock exactly at a deadline and went on
C10_Witness ==
  /\ \E o \in Orders : <<o, "expired">> \in outcomes /\ \A c \in reactCalls : c.order # o
  /\ \E f \in Frames : f.pc = "react_commit" /\ f.t = DeadlineMs(f.order)

\* the positions of an invocation inside solverReact
ReactPcs == {"react_getOrder", "react_deposit", "react_commit"}

\* C11: process() routes on the status of the event alone: USER_INITIATED
\* starts solverReact, WAIT_FOR_SOLVER_TX starts sendSolverTransaction, and any
\* other status starts nothing (no frame, hence no ledger read, no ledger write
\* and no payment-API call); a started invocation is a fresh frame that carries
\* nothing but the order id and the event, so nothing of earlier events enters.
C11_RoutesOnStatusOnly ==
  /\ [](/\ \A f \in Frames :
            /\ f.pc \in ReactPcs => f.event = USER_INITIATED
            /\ f.pc \in {"settle_getOrder"} \cup SettlePcs \cup PollerPcs =>
                 f.event = WAIT_FOR_SOLVER_TX
        /\ \A x \in outcomes :
            x[2] # Ignored(USER_INITIATED) /\ x[2] # Ignored(WAIT_FOR_SOLVER_TX))
  /\ [][nextTask' # nextTask =>
          /\ ledger' = ledger /\ jobs' = jobs /\ alerts' = alerts
          /\ reactCalls' = reactCalls /\ settleCalls' = settleCalls
          /\ \/ /\ tasks' = tasks
                /\ \E o \in Orders, s \in {AUCTION_IN_PROGRESS, MATCHED, SETTLED} :
                     outcomes' = outcomes \cup {<<o, Ignored(s)>>}
             \/ /\ outcomes' = outcomes
                /\ \E o \in Orders :
                     \/ tasks' = tasks (+) SetToBag({[NewFrame EXCEPT
                            !.pc = "react_getOrder", !.order = o, !.event = USER_INITIATED]})
                     \/ tasks' = tasks (+) SetToBag({[NewFrame EXCEPT
                            !.pc = "settle_getOrder", !.order = o,
                            !.event = WAIT_FOR_SOLVER_TX]})]_vars

\* one event was ignored for its status while events of the two routed
\* statuses each started their handler
C11_Witness ==
  /\ \E o \in Orders : <<o, Ignored(AUCTION_IN_PROGRESS)>> \in outcomes
  /\ \E f \in Frames : f.pc = "react_getOrder" /\ f.event = USER_INITIATED

\* the job of order o has neither a transaction id nor its terminal marker
StillPending(o) ==
  \E k \in JobsOf(o) : ~Truthy(jobs[k].txid) /\ ~jobs[k].terminatedAt

NonTerminal(wd) == ~IsConfirmed(wd) /\ ~IsTerminated(wd)

\* C13 as stated: whatever job object a poller holds when its fetch fails, the
\* poll is not its last: the object it holds before a poll is never one that
\* the poll would take for confirmed or terminated.
C13_FailedFetchAlwaysPollsAgain ==
  \A f \in Frames : f.pc = "poll" => NonTerminal(f.wd)

\* C13 as amended: a failed fetch leaves the poller with the object it held and
\* the poll is decided on that object.  An object kept from an earlier poll and
\* the object of a freshly created job are never confirmed or terminated, and
\* whenever neither the held object nor the job itself is, the poll (its fetch
\* failed or not) ends in the timer for the same job, with no alert and no
\* submission.  Only a recovered object can already be confirmed or terminated
\* before the first poll, and then a failed fetch ends the wait on it.
C13_FailedFetchKeepsHeldObject ==
  /\ [](\A f \in Frames : f.pc = "timer" => NonTerminal(f.wd))
  /\ [][/\ \A k \in ExternalIds :
             (jobs[k] = NoJob /\ jobs'[k] # NoJob) =>
               \E f \in Frames' :
                 /\ f.pc = "poll" /\ f.wd.transactionId = k /\ NonTerminal(f.wd)
                 /\ CopiesIn(f, tasks') = CopiesIn(f, tasks) + 1
        /\ \A f \in Frames :
             (/\ f.pc = "poll"
              /\ CopiesIn(f, tasks') < CopiesIn(f, tasks)
              /\ NonTerminal(f.wd)
              /\ NonTerminal(Snapshot(f.wd.transactionId)))
             => /\ \E g \in Frames' :
                     /\ g.pc = "timer" /\ g.order = f.order
                     /\ g.wd.transactionId = f.wd.transactionId
                     /\ g.failed => g.wd = f.wd
                     /\ CopiesIn(g, tasks') = CopiesIn(g, tasks) + 1
                /\ NumFrames' = NumFrames
                /\ alerts' = alerts
                /\ settleCalls' = settleCalls
                /\ outcomes' = outcomes]_vars

\* a poller waits in the timer after a failed fetch, with an object older than
\* the job: the job is completed with its transaction id, the object held is not
C13_Witness ==
  \E f \in Frames :
    /\ f.pc = "timer"
    /\ f.failed
    /\ ~Truthy(f.wd.txid)
    /\ jobs[f.wd.transactionId].txid = TxIdOf(f.order)
    /\ jobs[f.wd.transactionId].status = "completed"

\* C14: a poller that has a confirmed transaction id leaves the submission
\* only by a call the ledger accepted or by a critical alert logged after its
\* last attempt; a rejected attempt that is not the last is followed by another
\* attempt of the same poller with the same transaction id.  This is so for a
\* poll started by sendSolverTransaction and for one started by the timer.
C14_ConfirmedTxNeverDropped ==
  /\ [](\A f \in Frames : f.pc = "submit" => (f.tries < MaxRetries /\ IsConfirmed(f.wd)))
  /\ [][\A f \in Frames :
          (f.pc = "submit" /\ CopiesIn(f, tasks') < CopiesIn(f, tasks)) =>
            /\ \E c \in settleCalls' : c.order = f.order /\ c.txid = f.wd.txid
            /\ \/ /\ ledger'[f.order].status = SETTLED
                  /\ ledger[f.order].status = WAIT_FOR_SOLVER_TX
                  /\ <<f.order, "confirmed">> \in outcomes'
               \/ /\ ledger' = ledger
                  /\ f.tries + 1 = MaxRetries
                  /\ alerts'[<<f.order, "pollerFailed">>] = alerts[<<f.order, "pollerFailed">>] + 1
               \/ /\ ledger' = ledger
                  /\ f.tries + 1 < MaxRetries
                  /\ alerts' = alerts
                  /\ LET g == [f EXCEPT !.tries = @ + 1]
                     IN  CopiesIn(g, tasks') = CopiesIn(g, tasks) + 1]_vars

\* the poller of one order ran out of attempts and logged its alert with no
\* submission accepted, while a poller of the other order, started by the
\* timer, is retrying a rejected submission
C14_Witness ==
  \E o, p \in Orders :
    /\ o # p
    /\ alerts[<<o, "pollerFailed">>] >= 1
    /\ <<o, "retriesExhausted">> \in outcomes
    /\ ledger[o].status # SETTLED
    /\ \E f \in PollersOf(p) : f.pc = "submit" /\ f.via = "timer" /\ f.tries >= 1

CreateAlerts(o) == alerts[<<o, "createFailed">>]

\* what a failed createTransaction (not 'already exists') does at once: one
\* critical alert, the invocation over, no poller, no job, no ledger write
AbandonsAttempt(o) ==
  CreateAlerts(o)' # CreateAlerts(o) =>
    /\ CreateAlerts(o)' = CreateAlerts(o) + 1
    /\ <<o, "createFailed">> \in outcomes'
    /\ NumFrames' = NumFrames - 1
    /\ CountPollers(o)' = CountPollers(o)
    /\ jobs' = jobs
    /\ ledger' = ledger
    /\ settleCalls' = settleCalls

\* C15 as stated: after such a failure the attempt is abandoned and the solver
\* itself arms no re-invocation: every invocation of process() comes from an
\* event of the indexer.
C15_NoSelfReinvocation ==
  [][\A o \in Orders : AbandonsAttempt(o) /\ (o \in delayed <=> o \in delayed')]_vars

\* C15 as amended: the failure logs one critical alert and ends the invocation
\* with no poller, no job and no ledger write, and it arms a timer for the
\* order; when the timer fires the solver itself starts sendSolverTransaction
\* for that order again, as for a WAIT_FOR_SOLVER_TX event.
C15_AlertAndSelfRequeue ==
  [][\A o \in Orders :
       /\ AbandonsAttempt(o)
       /\ CreateAlerts(o)' # CreateAlerts(o) => o \in delayed'
       /\ (o \notin delayed /\ o \in delayed') => CreateAlerts(o)' = CreateAlerts(o) + 1
       /\ (o \in delayed /\ o \notin delayed') =>
            /\ tasks' = tasks (+) SetToBag({[NewFrame EXCEPT
                   !.pc = "settle_getOrder", !.order = o, !.event = WAIT_FOR_SOLVER_TX]})
            /\ UNCHANGED <<ledger, jobs, alerts, outcomes, reactCalls, settleCalls>>]_vars

\* a creation failed and was alerted with no job made, and the timer it armed
\* has fired: the solver has re-invoked settlement for the order by itself
C15_Witness ==
  \E o \in Orders :
    /\ <<o, "createFailed">> \in outcomes
    /\ CreateAlerts(o) >= 1
    /\ o \notin delayed
    /\ jobs[ExternalId(o)] = NoJob
    /\ \A c \in settleCalls : c.order # o

\* C16: when the deposit-address lookup yields no address (an empty list, or
\* an entry without an address) the reactor ends normally and calls no
\* solverReact: in particular it never ends by throwing on an empty list.
C16_NoAddressIsNoOp ==
  /\ \A x \in outcomes : x[2] # "depositEmpty"
  /\ \A f \in Frames : f.pc = "react_commit" => f.addr # ""

\* the solverReact calls issued for order o
ReactCallsOf(o) == {c \in reactCalls : c.order = o}

\* C17: an invocation that reaches the commitment issues one solverReact call,
\* with the order's maxPrice_e18 and the deposit address it resolved, and is
\* over with that step whether the ledger accepts or not: it ends normally
\* ("committed" or "commitFailed"), leaves no frame behind and arms no timer,
\* so nothing retries; and no other step issues a solverReact call.
C17_OneCommitNoRetry ==
  /\ [](\A c \in reactCalls :
          /\ c.price = OrderData[c.order].maxPrice_e18
          /\ c.address = OrderData[c.order].baseNetwork)
  /\ [][/\ \A f \in Frames :
             (f.pc = "react_commit" /\ CopiesIn(f, tasks') < CopiesIn(f, tasks)) =>
               /\ NumFrames' = NumFrames - 1
               /\ delayed' = delayed
               /\ \E c \in reactCalls' :
                    c.order = f.order /\ c.address = f.addr /\ c.at = ledger[f.order].status
               /\ Cardinality(reactCalls' \ reactCalls) <= 1
               /\ \/ <<f.order, "committed">> \in outcomes'
                  \/ <<f.order, "commitFailed">> \in outcomes' /\ ledger' = ledger
               /\ outcomes' \cap (Orders \X Thrown) = outcomes \cap (Orders \X Thrown)
        /\ reactCalls' # reactCalls =>
             /\ NumFrames' = NumFrames - 1
             /\ \E f \in Frames :
                  f.pc = "react_commit" /\ CopiesIn(f, tasks') < CopiesIn(f, tasks)]_vars

\* the commitment of an order failed: one call was issued, the invocation is
\* over and nothing of the reactor runs for the order any more
C17_Witness ==
  \E o \in Orders :
    /\ nextTask = 1
    /\ <<o, "commitFailed">> \in outcomes
    /\ Cardinality(ReactCallsOf(o)) = 1
    /\ tasks = EmptyBag
    /\ delayed = {}

\* the payout of the claim, computed on numbers: quoteAmount when nonzero,
\* otherwise floor(baseAmount * p * 10^k / 10^e), e = baseDecimals + 18 -
\* quoteDecimals, a multiplication by 10^(-e) when e is negative
ExpectedPayout(c) ==
  LET e == c.baseDecimals + 18 - c.quoteDecimals
      bp == c.baseAmount * c.p
  IN  IF c.quoteAmount # 0 THEN c.quoteAmount
      ELSE IF c.k >= e THEN bp * Pow10(c.k - e)
      ELSE IF e - c.k > 9 THEN 0
      ELSE bp \div Pow10(e - c.k)

\* C18: for all the inputs, quoteDecimals > baseDecimals + 18 included, the
\* payout is computed (nothing is thrown) and equals quoteAmount when that is
\* nonzero and the floor quotient otherwise.
C18_PayoutIsQuotient ==
  calc.done => (~calc.threw /\ calc.value = ExpectedPayout(calc))

\* C18 where the exponent is not negative, or quoteAmount is given: the payout
\* is as the claim says; with a negative exponent and no quoteAmount the
\* computation throws.
C18_PayoutWhereExponentNotNegative ==
  calc.done =>
    IF calc.quoteAmount = 0 /\ calc.quoteDecimals > calc.baseDecimals + 18
    THEN calc.threw
    ELSE ~calc.threw /\ calc.value = ExpectedPayout(calc)

\* the example of the claim has been computed
C18_Example ==
  /\ calc.done /\ calc.quoteAmount = 0 /\ calc.baseAmount = 1000000
  /\ calc.p = 2 /\ calc.k = 18 /\ calc.baseDecimals = 6 /\ calc.quoteDecimals = 6
  /\ calc.value = 2000000

\* a job object with its terminal marker, a transaction id and status 'completed'
ConfirmedAndTerminated(wd) == wd.terminatedAt /\ Truthy(wd.txid) /\ wd.status = "completed"

\* a job object with its terminal marker and a transaction id, not 'completed'
TerminatedWithTx(wd) == wd.terminatedAt /\ Truthy(wd.txid) /\ wd.status # "completed"

\* the job objects a poll of frame f can decide on: the job as fetched, or the
\* object held when the fetch fails
Candidates(f) == {Snapshot(f.wd.transactionId), f.wd}

\* the poll of frame f failed to fetch and went on to the timer with the
\* object it held
FetchFailedInto(f) ==
  \E g \in Frames' :
    /\ g.pc = "timer" /\ g.failed /\ g.wd = f.wd /\ g.order = f.order
    /\ CopiesIn(g, tasks') = CopiesIn(g, tasks) + 1

\* C19: in one poll the confirmation check comes first.  A poll that decides
\* on a job object with transaction id, status 'completed' and terminatedAt
\* goes to the submission and logs no 'terminated' alert; a poll that decides
\* on an object with terminatedAt and a transaction id but another status logs
\* the alert and stops without a submission (a poll whose fetch failed on an
\* object that shows neither goes to the timer).  A 'terminated' alert is only
\* ever logged by a poll for which some object it could decide on is
\* terminated and not confirmed.
C19_ConfirmedBeforeTerminated ==
  /\ [](\A f \in Frames : f.pc = "submit" => IsConfirmed(f.wd))
  /\ [][\A f \in Frames :
          (f.pc = "poll" /\ CopiesIn(f, tasks') < CopiesIn(f, tasks)) =>
            /\ ConfirmedAndTerminated(Snapshot(f.wd.transactionId)) =>
                 /\ alerts' = alerts
                 /\ \/ \E g \in Frames' :
                         /\ g.pc = "submit" /\ g.order = f.order /\ g.wd.txid = TxIdOf(f.order)
                         /\ CopiesIn(g, tasks') = CopiesIn(g, tasks) + 1
                    \/ FetchFailedInto(f)
            /\ TerminatedWithTx(Snapshot(f.wd.transactionId)) =>
                 /\ settleCalls' = settleCalls
                 /\ \A g \in Frames' : g.pc = "submit" => g \in Frames
                 /\ \/ /\ TerminatedAlerts(f.order)' = TerminatedAlerts(f.order) + 1
                       /\ NumFrames' = NumFrames - 1
                    \/ FetchFailedInto(f)
            /\ TerminatedAlerts(f.order)' # TerminatedAlerts(f.order) =>
                 \E wd \in Candidates(f) : IsTerminated(wd) /\ ~IsConfirmed(wd)]_vars

\* one order's job was terminated, completed and broadcast, and its poller
\* submitted the transaction id with no 'terminated' alert; the other order's
\* job was terminated as failed with a transaction id, and its poller logged
\* the alert and submitted nothing
C19_Witness ==
  \E o, p \in Orders :
    /\ o # p
    /\ ConfirmedAndTerminated(jobs[ExternalId(o)])
    /\ \E c \in settleCalls : c.order = o /\ c.txid = TxIdOf(o)
    /\ TerminatedAlerts(o) = 0
    /\ TerminatedWithTx(jobs[ExternalId(p)])
    /\ TerminatedAlerts(p) = 1
    /\ \A c \in settleCalls : c.order # p
    /\ PollersOf(p) = {}

\* the setSolverTxOnQuoteNetwork calls issued for order o
SettleCallsOf(o) == {c \in settleCalls : c.order = o}

\* C20: the transaction id sent to the ledger for order o is the
\* blockchainTxId of the job stored under "o-solver", a job made for o; every
\* poller holds the job of its own order; and a step of a poller of o changes
\* no job at all and nothing of another order: not its ledger entry, not the
\* calls issued for it, not its alerts, not its pollers.
C20_OrdersDoNotMix ==
  /\ [](\A c \in settleCalls :
          /\ <<c.order, "solver">> \in DOMAIN jobs
          /\ jobs[<<c.order, "solver">>].order = c.order
          /\ jobs[<<c.order, "solver">>].txid = c.txid)
  /\ [](\A f \in Frames :
          f.pc \in PollerPcs => f.wd.transactionId = <<f.order, "solver">>)
  /\ [][\A f \in Frames :
          (f.pc \in PollerPcs /\ CopiesIn(f, tasks') < CopiesIn(f, tasks)) =>
            /\ jobs' = jobs
            /\ \A p \in Orders \ {f.order} :
                 /\ ledger'[p] = ledger[p]
                 /\ SettleCallsOf(p)' = SettleCallsOf(p)
                 /\ \A kind \in AlertKinds : alerts'[<<p, kind>>] = alerts[<<p, kind>>]
                 /\ CountPollers(p)' = CountPollers(p)]_vars

\* two orders were settled side by side: each is SETTLED by a submission that
\* carried the transaction id of its own job, and the two ids differ
C20_Witness ==
  /\ \A o \in Orders :
       /\ ledger[o].status = SETTLED
       /\ <<o, "confirmed">> \in outcomes
       /\ SettleCallsOf(o) # {}
       /\ \A c \in SettleCallsOf(o) : c.txid = TxIdOf(o)
  /\ \E c, d \in settleCalls : c.order # d.order /\ c.txid # d.txid

=============================================================================
